---- MODULE Spec2Model ----
(***************************************************************************)
(* The literate-code runner of javascript-by-example (src/run.js).         *)
(*                                                                         *)
(* src/run.js holds two revisions of main():                               *)
(*   "babel"  lines  5-21: extract, write, babel-node, unlink; no .catch   *)
(*   "flow"   lines 31-53: extract, write, flow + babel-node, unlink,      *)
(*                         and a .catch handler that unlinks as well       *)
(* An invocation is one node process running one revision.  The promise    *)
(* chain of main() is modelled handler by handler: a handler runs when the *)
(* promise before it settles in the state the handler is registered for.   *)
(* literatejs, flow, babel-node and the file system are the environment.   *)
(*                                                                         *)
(* The module also holds the examples the runner is used on: the ten       *)
(* functions src/async.md hands to async.series, run by the event loop of  *)
(* one node process (SpecAsync), and the procedural and the declarative    *)
(* average of src/declarative.js (SpecDecl).  Each specification leaves    *)
(* the variables of the others at rest.                                    *)
(***************************************************************************)
EXTENDS Integers, Sequences, FiniteSets, TLC

VARIABLES
  fs,       \* the directory: a function from the paths that exist to contents
  variant,  \* variant[p]: the revision of main() process p runs
  argv,     \* argv[p]: process.argv of process p
  pc,       \* pc[p]: where process p stands
  idx,      \* idx[p]: index in Chain of the last handler that was entered
  st,       \* st[p]: the settled state of the promise the chain waits on
  exit,     \* exit[p]: exit code of the node process, -1 while it runs
  log,      \* log[p]: history of the steps process p performed
  io,       \* io[p]: history of the calls process p made, with their arguments
  fs0,      \* the directory as it was before the first invocation started
  \* the asynchronous examples (src/async.md), run in one node process
  example,  \* index in Examples of the function async.series is at
  called,   \* the function was called and its body has yet to run
  clock,    \* milliseconds since the script started
  timers,   \* the callbacks setTimeout has scheduled, in the order they were set
  jobs,     \* the promise reactions waiting to run once the stack is empty
  mem,      \* the variables the examples close over
  nexts,    \* nexts[k]: how often example k has called its nextExample
  out,      \* history of console.log calls, each with the example that made it
  \* the script of src/declarative.js, run in a node process of its own
  scores,   \* the array the script computes on
  psum,     \* the procedural sum
  pcount,   \* the index of the procedural loop
  paverage, \* the procedural average, undefined until the loop is over
  script,   \* the part of the script that ran last
  printed   \* history of the results the script printed

runVars == <<fs, variant, argv, pc, idx, st, exit, log, io, fs0>>

asyncVars == <<example, called, clock, timers, jobs, mem, nexts, out>>

declVars == <<scores, psum, pcount, paverage, script, printed>>

vars == <<runVars, asyncVars, declVars>>

-----------------------------------------------------------------------------
(* Bounds *)

\* number of node processes the model knows; Spec starts one of them
NumProcs == 2

\* child processes exit with a status in 0..MaxExitStatus
MaxExitStatus == 1

Procs == 1..NumProcs

ExitStatuses == 0..MaxExitStatus

-----------------------------------------------------------------------------
(* JavaScript values and the paths of main() *)

Undefined == [type |-> "undefined", str |-> ""]

Str(s) == [type |-> "string", str |-> s]

\* index of the document name in process.argv
ArgIndex == 2

\* process.argv[i]; JavaScript arrays are 0-based and yield undefined past the end
ArgvAt(a, i) == IF i + 1 <= Len(a) THEN Str(a[i + 1]) ELSE Undefined

\* the string conversion `+` applies to its left operand
StringOf(v) == IF v.type = "undefined" THEN "undefined" ELSE v.str

\* var module = process.argv[2] + '.md'
Module(a) == StringOf(ArgvAt(a, ArgIndex)) \o ".md"

\* a variant of Output that forgets the suffix: the generated file is the document
OutputIsModule(a) == StringOf(ArgvAt(a, ArgIndex)) \o ".md"

\* a variant of Output that replaces the extension instead of appending to it
OutputBesideName(a) == StringOf(ArgvAt(a, ArgIndex)) \o ".js"

\* var output = module + '.js'
Output(a) == Module(a) \o ".js"

\* 'flow ' + output
FlowCommand(a) == "flow " \o Output(a)

\* 'babel-node ' + output
BabelCommand(a) == "babel-node " \o Output(a)

\* the command lines the model starts node with
Argvs ==
  { <<"node", "run.js">>,
    <<"node", "run.js", "proto">>,
    <<"node", "run.js", "proto.js">> }

ArgMissing(a) == ArgvAt(a, ArgIndex) = Undefined

-----------------------------------------------------------------------------
(* The file system *)

ModulePaths == { Module(a) : a \in Argvs }

OutputPaths == { Output(a) : a \in Argvs }

Paths == ModulePaths \cup OutputPaths

\* literate documents: two with code blocks, one the extractor rejects
Docs == { "docA", "docB", "malformed" }

\* content of a generated file left behind by an earlier invocation
Stale == "stale"

Exists(f, path) == path \in DOMAIN f

\* a variant of WriteFile that leaves an existing file as it is
WriteFileKeepsExisting(f, path, text) ==
  [q \in DOMAIN f \cup {path} |-> IF q \in DOMAIN f THEN f[q] ELSE text]

\* writing a file creates it or replaces its content
WriteFile(f, path, text) ==
  [q \in DOMAIN f \cup {path} |-> IF q = path THEN text ELSE f[q]]

\* removing a directory entry
RemoveFile(f, path) == [q \in DOMAIN f \ {path} |-> f[q]]

-----------------------------------------------------------------------------
(* Promises *)

Fulfilled(v) == [state |-> "fulfilled", val |-> v]

Rejected(e) == [state |-> "rejected", val |-> e]

Pending == [state |-> "pending", val |-> "undefined"]

\* literatejs.extract(module): the code blocks of the document, or a rejection
\* when the document is missing or malformed
Extract(f, path) ==
  IF ~Exists(f, path) THEN Rejected("extract")
  ELSE CASE f[path] = "docA" -> Fulfilled("codeA")
         [] f[path] = "docB" -> Fulfilled("codeB")
         [] OTHER -> Rejected("extract")

\* a variant of ExecSyncThrows that ignores the exit status, as spawnSync does
ExecSyncNeverThrows(status) == FALSE

\* execSync throws when the child exits with a non-zero status
ExecSyncThrows(status) == status # 0

\* a variant of UnlinkSyncThrows for an unlink that is given a wrong path
UnlinkSyncAlwaysThrows(f, path) == TRUE

\* fs.unlinkSync(path): throws when there is no such file
UnlinkSyncThrows(f, path) == ~Exists(f, path)

H(on, fn) == [on |-> on, fn |-> fn]

\* a variant of Chain in which no revision registers the .catch handler
ChainNoCatch(v) ==
  << H("fulfilled", "write"),
     H("fulfilled", "exec"),
     H("fulfilled", "unlink") >>

\* a variant of Chain in which every revision registers the .catch handler
ChainAlwaysCatch(v) ==
  << H("fulfilled", "write"),
     H("fulfilled", "exec"),
     H("fulfilled", "unlink"),
     H("rejected", "unlink") >>

\* a variant of Chain that runs the children before the file is written
ChainExecFirst(v) ==
  << H("fulfilled", "exec"),
     H("fulfilled", "write"),
     H("fulfilled", "unlink") >>
  \o (IF v = "babel" THEN <<>> ELSE << H("rejected", "unlink") >>)

\* the handlers main() registers on the promise of literatejs.extract
Chain(v) ==
  IF v = "babel"
  THEN << H("fulfilled", "write"),
          H("fulfilled", "exec"),
          H("fulfilled", "unlink") >>
  ELSE << H("fulfilled", "write"),
          H("fulfilled", "exec"),
          H("fulfilled", "unlink"),
          H("rejected", "unlink") >>

\* the revision with the checker runs flow before babel-node
HasChecker(v) == v = "flow"

\* a variant of NextHandler that runs every handler whatever the state is
NextHandlerIgnoresState(chain, i, state) == i + 1

\* .then handlers are skipped by a rejection, .catch handlers by a fulfilment:
\* the next handler to run after handler i, Len(chain) + 1 when there is none
NextHandler(chain, i, state) ==
  LET J == { j \in (i + 1)..Len(chain) : chain[j].on = state }
  IN  IF J = {} THEN Len(chain) + 1
      ELSE CHOOSE j \in J : \A k \in J : j <= k

\* exit code of node once the chain has settled: 0 when it is fulfilled; an
\* unhandled rejection is ignored or warned about by older node releases
\* (exit 0) and terminates newer ones with exit code 1
ExitCodes(s) == IF s.state = "rejected" THEN {0, 1} ELSE {0}

Ev(step, ev) == [step |-> step, ev |-> ev]

\* a call of the library or of node: its first argument and the data it is given
Call(op, arg, data) == [op |-> op, arg |-> arg, data |-> data]

\* how the history records the exit of a child: "ok" for status 0
Exited(status) == IF status = 0 THEN "ok" ELSE "fail"

-----------------------------------------------------------------------------
(* JavaScript numbers and the examples' process at rest *)

Abs(n) == IF n < 0 THEN -n ELSE n

RECURSIVE Gcd(_, _)
Gcd(a, b) == IF b = 0 THEN a ELSE Gcd(b, a % b)

\* a number is the fraction num/den in lowest terms (rounding is left out);
\* negz tells -0 from +0, and den = 0 stands for Infinity, -Infinity and NaN
Num(n, d) ==
  LET g == Gcd(Abs(n), Abs(d))
      s == IF d < 0 THEN -1 ELSE 1
  IN  IF g = 0
      THEN [type |-> "number", num |-> 0, den |-> 0, negz |-> FALSE]
      ELSE [type |-> "number", num |-> (s * n) \div g, den |-> (s * d) \div g,
            negz |-> FALSE]

Number(n) == Num(n, 1)

NegZero == [type |-> "number", num |-> 0, den |-> 1, negz |-> TRUE]

IsZero(x) == x.num = 0 /\ x.den # 0

Negative(x) == x.num < 0 \/ x.negz

\* x + y on numbers: a zero sum is -0 only when both operands are -0
Plus(x, y) ==
  IF IsZero(x) /\ IsZero(y)
  THEN IF x.negz /\ y.negz THEN NegZero ELSE Number(0)
  ELSE Num(x.num * y.den + y.num * x.den, x.den * y.den)

\* x * y on numbers
Times(x, y) ==
  IF IsZero(x) \/ IsZero(y)
  THEN IF Negative(x) # Negative(y) THEN NegZero ELSE Number(0)
  ELSE Num(x.num * y.num, x.den * y.den)

\* x / y on numbers: a zero quotient takes its sign from both operands
Over(x, y) ==
  IF IsZero(y)
  THEN Num(IF IsZero(x) THEN 0 ELSE IF Negative(x) # Negative(y) THEN -1 ELSE 1, 0)
  ELSE IF IsZero(x)
  THEN IF Negative(x) # Negative(y) THEN NegZero ELSE Number(0)
  ELSE Num(x.num * y.den, x.den * y.num)

Digits == <<"0", "1", "2", "3", "4", "5", "6", "7", "8", "9">>

\* the decimal string a template literal puts in place of a natural number
RECURSIVE NatStr(_)
NatStr(n) ==
  IF n < 10 THEN Digits[n + 1] ELSE NatStr(n \div 10) \o Digits[(n % 10) + 1]

\* the functions handed to async.series, in the listed order
Examples ==
  << "blockRestaurant", "deferRestaurant", "nextTickDemo", "separateStack",
     "syncWorkflow", "asyncWorkflow", "commonContinuation", "asyncSequence",
     "pyramidOfDoom", "promiseSequence" >>

\* the closed-over variables before any example has declared them
Mem0 ==
  [ordersTaken |-> 0, numtasks |-> 0, tasks |-> <<>>, x |-> Number(0), then |-> 0]

\* a process in which async.series was not called
AsyncOff ==
  /\ example = 0
  /\ called = FALSE
  /\ clock = 0
  /\ timers = <<>>
  /\ jobs = <<>>
  /\ mem = Mem0
  /\ nexts = [k \in DOMAIN Examples |-> 0]
  /\ out = <<>>

\* a process that does not run the script of declarative.js
DeclOff ==
  /\ scores = <<>>
  /\ psum = Number(0)
  /\ pcount = 0
  /\ paverage = Undefined
  /\ script = "off"
  /\ printed = <<>>

-----------------------------------------------------------------------------
(* Initial states *)

\* the directories an invocation can find: any of the documents may exist,
\* and a generated file may have been left behind
InitialDirs ==
  { f \in UNION { [D -> Docs \cup {Stale}] : D \in SUBSET Paths } :
      \A q \in DOMAIN f : (q \in OutputPaths) <=> (f[q] = Stale) }

InitCommon ==
  /\ fs \in InitialDirs
  /\ variant \in [Procs -> {"babel", "flow"}]
  /\ argv \in [Procs -> Argvs]
  /\ idx = [p \in Procs |-> 0]
  /\ st = [p \in Procs |-> Pending]
  /\ exit = [p \in Procs |-> -1]
  /\ log = [p \in Procs |-> <<>>]
  /\ io = [p \in Procs |-> <<>>]
  /\ fs0 = fs
  /\ AsyncOff
  /\ DeclOff

\* one invocation; the other processes are never started
Init ==
  /\ InitCommon
  /\ pc = [p \in Procs |-> IF p = 1 THEN "idle" ELSE "off"]
  /\ \A p \in Procs \ {1} : variant[p] = "babel" /\ argv[p] = <<"node", "run.js">>

-----------------------------------------------------------------------------
(* Actions *)

\* main() up to the call of literatejs.extract(module)
Main(p) ==
  /\ pc[p] = "idle"
  /\ pc' = [pc EXCEPT ![p] = "extracting"]
  /\ log' = [log EXCEPT ![p] = Append(@, Ev("extract", "start"))]
  /\ io' = [io EXCEPT ![p] = Append(@, Call("extract", Module(argv[p]), ""))]
  /\ UNCHANGED <<fs, variant, argv, idx, st, exit, fs0, asyncVars, declVars>>

\* the promise of literatejs.extract settles
ExtractSettle(p) ==
  /\ pc[p] = "extracting"
  /\ LET r == Extract(fs, Module(argv[p]))
     IN  /\ st' = [st EXCEPT ![p] = r]
         /\ log' = [log EXCEPT ![p] =
               Append(@, Ev("extract", IF r.state = "fulfilled" THEN "ok" ELSE "fail"))]
  /\ pc' = [pc EXCEPT ![p] = "dispatch"]
  /\ UNCHANGED <<fs, variant, argv, idx, exit, io, fs0, asyncVars, declVars>>

\* the handler that runs next for process p, 0 when p is not dispatching
NextIdx(p) ==
  IF pc[p] = "dispatch" THEN NextHandler(Chain(variant[p]), idx[p], st[p].state) ELSE 0

HandlerIs(p, fn) ==
  /\ pc[p] = "dispatch"
  /\ NextIdx(p) <= Len(Chain(variant[p]))
  /\ Chain(variant[p])[NextIdx(p)].fn = fn

\* function (code) { return literatejs.write(output, code) }
RunWrite(p) ==
  /\ HandlerIs(p, "write")
  /\ idx' = [idx EXCEPT ![p] = NextIdx(p)]
  /\ pc' = [pc EXCEPT ![p] = "writing"]
  /\ log' = [log EXCEPT ![p] = Append(@, Ev("write", "start"))]
  /\ io' = [io EXCEPT ![p] = Append(@, Call("write", Output(argv[p]), st[p].val))]
  /\ UNCHANGED <<fs, variant, argv, st, exit, fs0, asyncVars, declVars>>

\* the promise of literatejs.write settles; the write can fail
WriteSettle(p) ==
  /\ pc[p] = "writing"
  /\ \E ok \in BOOLEAN :
       IF ok
       THEN /\ fs' = WriteFile(fs, Output(argv[p]), st[p].val)
            /\ st' = [st EXCEPT ![p] = Fulfilled("undefined")]
            /\ log' = [log EXCEPT ![p] = Append(@, Ev("write", "ok"))]
       ELSE /\ fs' = fs
            /\ st' = [st EXCEPT ![p] = Rejected("write")]
            /\ log' = [log EXCEPT ![p] = Append(@, Ev("write", "fail"))]
  /\ pc' = [pc EXCEPT ![p] = "dispatch"]
  /\ UNCHANGED <<variant, argv, idx, exit, io, fs0, asyncVars, declVars>>

\* the handler with the execSync calls is entered and starts its first child
RunExec(p) ==
  /\ HandlerIs(p, "exec")
  /\ idx' = [idx EXCEPT ![p] = NextIdx(p)]
  /\ IF HasChecker(variant[p])
     THEN /\ pc' = [pc EXCEPT ![p] = "checking"]
          /\ log' = [log EXCEPT ![p] = Append(@, Ev("check", "start"))]
          /\ io' = [io EXCEPT ![p] = Append(@, Call("exec", FlowCommand(argv[p]), ""))]
     ELSE /\ pc' = [pc EXCEPT ![p] = "executing"]
          /\ log' = [log EXCEPT ![p] = Append(@, Ev("execute", "start"))]
          /\ io' = [io EXCEPT ![p] = Append(@, Call("exec", BabelCommand(argv[p]), ""))]
  /\ UNCHANGED <<fs, variant, argv, st, exit, fs0, asyncVars, declVars>>

\* flow exits: execSync('flow ' + output) returns or throws; when it returns
\* execSync('babel-node ' + output) starts the executor
FlowExit(p) ==
  /\ pc[p] = "checking"
  /\ \E status \in ExitStatuses :
       IF ExecSyncThrows(status)
       THEN /\ st' = [st EXCEPT ![p] = Rejected("flow")]
            /\ pc' = [pc EXCEPT ![p] = "dispatch"]
            /\ log' = [log EXCEPT ![p] = Append(@, Ev("check", Exited(status)))]
            /\ io' = io
       ELSE /\ st' = st
            /\ pc' = [pc EXCEPT ![p] = "executing"]
            /\ log' = [log EXCEPT ![p] =
                  Append(@, Ev("check", Exited(status))) \o <<Ev("execute", "start")>>]
            /\ io' = [io EXCEPT ![p] = Append(@, Call("exec", BabelCommand(argv[p]), ""))]
  /\ UNCHANGED <<fs, variant, argv, idx, exit, fs0, asyncVars, declVars>>

\* babel-node exits: execSync('babel-node ' + output) returns or throws
BabelExit(p) ==
  /\ pc[p] = "executing"
  /\ \E status \in ExitStatuses :
       IF ExecSyncThrows(status)
       THEN /\ st' = [st EXCEPT ![p] = Rejected("babel-node")]
            /\ log' = [log EXCEPT ![p] = Append(@, Ev("execute", Exited(status)))]
       ELSE /\ st' = [st EXCEPT ![p] = Fulfilled("undefined")]
            /\ log' = [log EXCEPT ![p] = Append(@, Ev("execute", Exited(status)))]
  /\ pc' = [pc EXCEPT ![p] = "dispatch"]
  /\ UNCHANGED <<fs, variant, argv, idx, exit, io, fs0, asyncVars, declVars>>

\* function () { fs.unlinkSync(output) }, as .then or as .catch handler
RunUnlink(p) ==
  /\ HandlerIs(p, "unlink")
  /\ idx' = [idx EXCEPT ![p] = NextIdx(p)]
  /\ IF UnlinkSyncThrows(fs, Output(argv[p]))
     THEN /\ fs' = fs
          /\ st' = [st EXCEPT ![p] = Rejected("unlink")]
          /\ log' = [log EXCEPT ![p] = @ \o <<Ev("unlink", "start"), Ev("unlink", "fail")>>]
     ELSE /\ fs' = RemoveFile(fs, Output(argv[p]))
          /\ st' = [st EXCEPT ![p] = Fulfilled("undefined")]
          /\ log' = [log EXCEPT ![p] = @ \o <<Ev("unlink", "start"), Ev("unlink", "ok")>>]
  /\ io' = [io EXCEPT ![p] = Append(@, Call("unlink", Output(argv[p]), ""))]
  /\ pc' = [pc EXCEPT ![p] = "dispatch"]
  /\ UNCHANGED <<variant, argv, exit, fs0, asyncVars, declVars>>

\* no handler is left: the chain has settled and node exits
Settle(p) ==
  /\ pc[p] = "dispatch"
  /\ NextIdx(p) > Len(Chain(variant[p]))
  /\ pc' = [pc EXCEPT ![p] = "done"]
  /\ \E c \in ExitCodes(st[p]) : exit' = [exit EXCEPT ![p] = c]
  /\ UNCHANGED <<fs, variant, argv, idx, st, log, io, fs0, asyncVars, declVars>>

Next ==
  \E p \in Procs :
    \/ Main(p)
    \/ ExtractSettle(p)
    \/ RunWrite(p)
    \/ WriteSettle(p)
    \/ RunExec(p)
    \/ FlowExit(p)
    \/ BabelExit(p)
    \/ RunUnlink(p)
    \/ Settle(p)

Spec == Init /\ [][Next]_vars

-----------------------------------------------------------------------------
(* The runner run again and again on one document *)

\* the directories in which only the files of command line a may exist
DirsOf(a) == { f \in InitialDirs : DOMAIN f \subseteq {Module(a), Output(a)} }

\* every process is an invocation with the same command line
InitTwice ==
  /\ InitCommon
  /\ \E a \in Argvs : argv = [p \in Procs |-> a] /\ fs \in DirsOf(a)
  /\ pc = [p \in Procs |-> "idle"]

\* process p runs once the invocations before it have finished
Turn(p) == \A q \in 1..(p - 1) : pc[q] = "done"

NextTwice ==
  \E p \in Procs :
    \/ Turn(p) /\ Main(p)
    \/ Turn(p) /\ ExtractSettle(p)
    \/ Turn(p) /\ RunWrite(p)
    \/ Turn(p) /\ WriteSettle(p)
    \/ Turn(p) /\ RunExec(p)
    \/ Turn(p) /\ FlowExit(p)
    \/ Turn(p) /\ BabelExit(p)
    \/ Turn(p) /\ RunUnlink(p)
    \/ Turn(p) /\ Settle(p)

SpecTwice == InitTwice /\ [][NextTwice]_vars

-----------------------------------------------------------------------------
(* Two invocations for one document at the same time *)

\* processes 1 and 2 are separate node processes started with the same document
\* name in the same directory; their steps interleave
InitConc ==
  /\ InitCommon
  /\ \E a \in Argvs :
       /\ ~ArgMissing(a)
       /\ argv = [p \in Procs |-> IF p \in {1, 2} THEN a ELSE <<"node", "run.js">>]
       /\ fs \in DirsOf(a)
  /\ pc = [p \in Procs |-> IF p \in {1, 2} THEN "idle" ELSE "off"]
  /\ \A p \in Procs \ {1, 2} : variant[p] = "babel"

SpecConc == InitConc /\ [][Next]_vars

-----------------------------------------------------------------------------
(* External termination *)

\* the operator interrupts the runner while execSync waits for a child: main()
\* registers no signal handler, so node dies where it stands (status 128 + 2)
Kill(p) ==
  /\ pc[p] \in {"checking", "executing"}
  /\ pc' = [pc EXCEPT ![p] = "killed"]
  /\ exit' = [exit EXCEPT ![p] = 128 + 2]
  /\ UNCHANGED <<fs, variant, argv, idx, st, log, io, fs0, asyncVars, declVars>>

NextKill ==
  \/ Next
  \/ \E p \in Procs : Kill(p)

SpecKill == Init /\ [][NextKill]_vars

-----------------------------------------------------------------------------
(* The asynchronous examples: async.series over Examples in one process *)

\* randomTimeout() draws from RandomBase + 0..MaxJitter
MaxJitter == 2

\* Math.floor(100 + Math.random() * 200)
RandomBase == 100

RandomSpan == 200

Smaller(a, b) == IF a < b THEN a ELSE b

Later(a, b) == IF a < b THEN b ELSE a

RandomTimeouts == {RandomBase + j : j \in 0..Smaller(MaxJitter, RandomSpan - 1)}

IndexOf(name) == CHOOSE k \in DOMAIN Examples : Examples[k] = name

\* what setTimeout keeps: the callback cb of example ex, the values it closes
\* over, and the time at which it is due
Timer(k, cb, args, at) == [ex |-> k, cb |-> cb, args |-> args, at |-> at]

\* a console.log call of example k with its arguments
Line(k, args) == [ex |-> k, args |-> args]

Say(k, s) == Line(k, <<Str(s)>>)

RemoveAt(ts, i) == SubSeq(ts, 1, i - 1) \o SubSeq(ts, i + 1, Len(ts))

RECURSIVE Concat(_)
Concat(ss) == IF ss = <<>> THEN <<>> ELSE Head(ss) \o Concat(Tail(ss))

\* the timers node may run next: those due first
Due(ts) == {i \in DOMAIN ts : \A j \in DOMAIN ts : ts[i].at <= ts[j].at}

\* async.series calls the function named name; its body is about to run
Calls(name) ==
  /\ called
  /\ example \in DOMAIN Examples
  /\ Examples[example] = name

\* the stack is empty, no promise reaction waits, and timer i is due: node runs
\* the callback cb that example name scheduled
Fires(i, name, cb) ==
  /\ ~called
  /\ jobs = <<>>
  /\ i \in Due(timers)
  /\ timers[i].ex = IndexOf(name)
  /\ timers[i].cb = cb

\* the callback async.series hands to example k: its first call makes the
\* series call the function listed next, in the same stack
NextExample(k) ==
  /\ nexts' = [nexts EXCEPT ![k] = @ + 1]
  /\ IF nexts[k] = 0 /\ example = k
     THEN /\ example' = k + 1
          /\ called' = (k + 1 \in DOMAIN Examples)
     ELSE /\ example' = example
          /\ called' = FALSE

\* the runner is not part of this process
RunnerOff ==
  /\ fs = [q \in {} |-> Stale]
  /\ variant = [p \in Procs |-> "babel"]
  /\ argv = [p \in Procs |-> <<"node", "run.js">>]
  /\ pc = [p \in Procs |-> "off"]
  /\ idx = [p \in Procs |-> 0]
  /\ st = [p \in Procs |-> Pending]
  /\ exit = [p \in Procs |-> -1]
  /\ log = [p \in Procs |-> <<>>]
  /\ io = [p \in Procs |-> <<>>]
  /\ fs0 = fs

\* async.series has called the first function
InitAsync ==
  /\ RunnerOff
  /\ example = 1
  /\ called = TRUE
  /\ clock = 0
  /\ timers = <<>>
  /\ jobs = <<>>
  /\ mem = Mem0
  /\ nexts = [k \in DOMAIN Examples |-> 0]
  /\ out = <<>>
  /\ DeclOff

(* The two restaurants *)

ORDER_TIMES == [carbonara |-> 1500, sandwich |-> 300, salad |-> 0]

\* the takeOrder calls of both restaurants
Orders ==
  << [name |-> "Bob", order |-> "carbonara"],
     [name |-> "Mary", order |-> "sandwich"],
     [name |-> "Jane", order |-> "salad"] >>

\* what Mr. Block's takeOrder and prepareOrder print for one order
BlockLines(k, o) ==
  <<Say(k, o.name \o " ordered " \o o.order)>>
  \o (IF ORDER_TIMES[o.order] = 0
      THEN <<Say(k, o.order \o " is already prepared")>>
      ELSE << Say(k, "Preparing " \o o.order \o ", ETA: "
                       \o NatStr(ORDER_TIMES[o.order])),
              Say(k, o.order \o " is ready!") >>)
  \o <<Say(k, o.name \o " received their " \o o.order)>>

\* the time Mr. Block's while loops spend on the orders os
RECURSIVE Cooking(_)
Cooking(os) ==
  IF os = <<>> THEN 0 ELSE ORDER_TIMES[Head(os).order] + Cooking(Tail(os))

blockRestaurant ==
  /\ Calls("blockRestaurant")
  /\ clock' = clock + Cooking(Orders)
  /\ out' = out \o Concat([i \in DOMAIN Orders |-> BlockLines(example, Orders[i])])
  /\ NextExample(example)
  /\ UNCHANGED <<timers, jobs, mem, runVars, declVars>>

\* a variant of TakeOrder that counts the salads as well
TakeOrderCountsSalad(count, order) == count + 1

\* ordersTaken after takeOrder(name, order)
TakeOrder(count, order) == IF order = "salad" THEN count ELSE count + 1

RECURSIVE OrdersTaken(_, _)
OrdersTaken(count, os) ==
  IF os = <<>> THEN count
  ELSE OrdersTaken(TakeOrder(count, Head(os).order), Tail(os))

\* the orders takeOrder hands to prepareOrder
Waiting(os) == SelectSeq(os, LAMBDA o : o.order # "salad")

\* what Mr. Defer's takeOrder and prepareOrder print for one order
DeferLines(k, o) ==
  <<Say(k, o.name \o " ordered " \o o.order)>>
  \o (IF o.order = "salad"
      THEN <<Say(k, o.name \o " does not have to wait")>>
      ELSE <<Say(k, "Preparing " \o o.order \o ", ETA: "
                      \o NatStr(ORDER_TIMES[o.order]))>>)

deferRestaurant ==
  /\ Calls("deferRestaurant")
  /\ mem' = [mem EXCEPT !.ordersTaken = OrdersTaken(0, Orders)]
  /\ timers' = timers \o
       [i \in DOMAIN Waiting(Orders) |->
          Timer(example, "serve",
                <<Str(Waiting(Orders)[i].name), Str(Waiting(Orders)[i].order)>>,
                clock + ORDER_TIMES[Waiting(Orders)[i].order])]
  /\ out' = out \o Concat([i \in DOMAIN Orders |-> DeferLines(example, Orders[i])])
                \o <<Say(example, "All orders taken")>>
  /\ called' = FALSE
  /\ UNCHANGED <<example, clock, jobs, nexts, runVars, declVars>>

\* a variant of NoMoreOrders that moves on after every order
NoMoreOrdersAlways(count) == TRUE

\* !ordersTaken
NoMoreOrders(count) == count = 0

\* the callback serve of one order
serve ==
  \E i \in DOMAIN timers :
    /\ Fires(i, "deferRestaurant", "serve")
    /\ LET t == timers[i]
           n == mem.ordersTaken - 1
       IN  /\ mem' = [mem EXCEPT !.ordersTaken = n]
           /\ timers' = RemoveAt(timers, i)
           /\ clock' = Later(clock, t.at)
           /\ IF NoMoreOrders(n)
              THEN /\ out' = out \o
                        << Say(t.ex, t.args[1].str \o "'s " \o t.args[2].str
                                       \o " is ready"),
                           Say(t.ex, "No more orders to serve, moving to next example") >>
                   /\ NextExample(t.ex)
              ELSE /\ out' = Append(out, Say(t.ex, t.args[1].str \o "'s "
                                                     \o t.args[2].str \o " is ready"))
                   /\ UNCHANGED <<example, called, nexts>>
    /\ UNCHANGED <<jobs, runVars, declVars>>

(* Stacks and workflows *)

\* the while loop of nextTickDemo keeps the stack busy this long
BusyWait == 1000

nextTickDemo ==
  /\ Calls("nextTickDemo")
  /\ timers' = Append(timers, Timer(example, "tick", <<>>, clock + 0))
  /\ clock' = clock + BusyWait
  /\ out' = Append(out, Say(example, "Run me after 1s"))
  /\ called' = FALSE
  /\ UNCHANGED <<example, jobs, mem, nexts, runVars, declVars>>

\* the callback nextTickDemo hands to setTimeout
tick ==
  \E i \in DOMAIN timers :
    /\ Fires(i, "nextTickDemo", "tick")
    /\ timers' = RemoveAt(timers, i)
    /\ clock' = Later(clock, timers[i].at)
    /\ out' = Append(out, Say(timers[i].ex, "Run me after 0s"))
    /\ NextExample(timers[i].ex)
    /\ UNCHANGED <<jobs, mem, runVars, declVars>>

separateStack ==
  /\ Calls("separateStack")
  /\ mem' = [mem EXCEPT !.x = Number(0)]
  /\ timers' = Append(timers, Timer(example, "stack", <<>>, clock + 0))
  /\ out' = Append(out, Line(example, <<Str("(current stack) x ="), Number(0)>>))
  /\ called' = FALSE
  /\ UNCHANGED <<example, clock, jobs, nexts, runVars, declVars>>

\* the callback separateStack hands to setTimeout
nextStack ==
  \E i \in DOMAIN timers :
    /\ Fires(i, "separateStack", "stack")
    /\ timers' = RemoveAt(timers, i)
    /\ clock' = Later(clock, timers[i].at)
    /\ mem' = [mem EXCEPT !.x = Plus(@, Number(1))]
    /\ out' = Append(out, Line(timers[i].ex,
                               <<Str("(next stack) x ="), Plus(mem.x, Number(1))>>))
    /\ NextExample(timers[i].ex)
    /\ UNCHANGED <<jobs, runVars, declVars>>

syncWorkflow ==
  /\ Calls("syncWorkflow")
  /\ out' = Append(out, Line(example, <<Str("i ="), Plus(Number(2), Number(3))>>))
  /\ NextExample(example)
  /\ UNCHANGED <<clock, timers, jobs, mem, runVars, declVars>>

asyncWorkflow ==
  /\ Calls("asyncWorkflow")
  /\ timers' = Append(timers, Timer(example, "add", <<Number(3), Number(8)>>,
                                     clock + 0))
  /\ called' = FALSE
  /\ UNCHANGED <<example, clock, jobs, mem, nexts, out, runVars, declVars>>

\* the callback add hands to setTimeout, and the callback add was given
added ==
  \E i \in DOMAIN timers :
    /\ Fires(i, "asyncWorkflow", "add")
    /\ timers' = RemoveAt(timers, i)
    /\ clock' = Later(clock, timers[i].at)
    /\ out' = Append(out, Line(timers[i].ex,
                 <<Str("i ="), Plus(timers[i].args[1], timers[i].args[2])>>))
    /\ NextExample(timers[i].ex)
    /\ UNCHANGED <<jobs, mem, runVars, declVars>>

(* Unordered operations with a common continuation *)

images == <<"image1", "image2", "image3", "image4">>

commonContinuation ==
  /\ Calls("commonContinuation")
  /\ mem' = [mem EXCEPT !.numtasks = Len(images)]
  /\ \E d \in [DOMAIN images -> RandomTimeouts] :
       timers' = timers \o
         [i \in DOMAIN images |->
            Timer(example, "image", <<Str(images[i])>>, clock + d[i])]
  /\ called' = FALSE
  /\ UNCHANGED <<example, clock, jobs, nexts, out, runVars, declVars>>

\* a variant of MoreTasks that lets every completion go on
MoreTasksNever(n) == FALSE

\* if (numtasks) return
MoreTasks(n) == n # 0

\* the callback of one image, and cont() which it calls
cont ==
  \E i \in DOMAIN timers :
    /\ Fires(i, "commonContinuation", "image")
    /\ LET t == timers[i]
           n == mem.numtasks - 1
       IN  /\ timers' = RemoveAt(timers, i)
           /\ clock' = Later(clock, t.at)
           /\ mem' = [mem EXCEPT !.numtasks = n]
           /\ IF MoreTasks(n)
              THEN /\ out' = Append(out, Say(t.ex, "Processed image " \o StringOf(t.args[1])))
                   /\ UNCHANGED <<example, called, nexts>>
              ELSE /\ out' = out \o
                        << Say(t.ex, "Processed image " \o StringOf(t.args[1])),
                           Say(t.ex, "All images processed") >>
                   /\ NextExample(t.ex)
    /\ UNCHANGED <<jobs, runVars, declVars>>

(* Ordered operations: the task queue *)

\* tasks.push(getValue); tasks.push(readFile); tasks.push(sendData)
Pushed == <<"getValue", "readFile", "sendData">>

\* a variant of SeqTask in which readFile forgets the file name
SeqTaskDropsName(task, arg) ==
  CASE task = "getValue" ->
         [line |-> "Retrieved value from database with query " \o StringOf(arg),
          val |-> Str("foo")]
    [] task = "readFile" ->
         [line |-> "Read file " \o StringOf(arg) \o ".csv",
          val |-> Str(".csv contents")]
    [] task = "sendData" ->
         [line |-> "Sending " \o StringOf(arg), val |-> Undefined]

\* the timer callback of a task of asyncSequence, called with arg: the line it
\* prints and the value it passes to its callback
SeqTask(task, arg) ==
  CASE task = "getValue" ->
         [line |-> "Retrieved value from database with query " \o StringOf(arg),
          val |-> Str("foo")]
    [] task = "readFile" ->
         [line |-> "Read file " \o StringOf(arg) \o ".csv",
          val |-> Str(StringOf(arg) \o ".csv contents")]
    [] task = "sendData" ->
         [line |-> "Sending " \o StringOf(arg), val |-> Undefined]

\* next(val) of example k, called with the queue tasks, the timers ts and the
\* lines printed so far in this stack
next(k, tasks, val, ts, now, lines) ==
  IF tasks # <<>>
  THEN /\ mem' = [mem EXCEPT !.tasks = Tail(tasks)]
       /\ \E d \in RandomTimeouts :
            timers' = Append(ts, Timer(k, Head(tasks), <<val>>, now + d))
       /\ out' = out \o lines
       /\ UNCHANGED <<example, nexts>>
       /\ called' = FALSE
  ELSE /\ mem' = [mem EXCEPT !.tasks = tasks]
       /\ timers' = ts
       /\ out' = out \o lines \o <<Say(k, "Last task complete")>>
       /\ NextExample(k)

asyncSequence ==
  /\ Calls("asyncSequence")
  /\ next(example, Pushed, Str("name == foo"), timers, clock, <<>>)
  /\ UNCHANGED <<clock, jobs, runVars, declVars>>

\* the timer callback of getValue, readFile or sendData
taskDone ==
  \E i \in DOMAIN timers, task \in {Pushed[j] : j \in DOMAIN Pushed} :
    /\ Fires(i, "asyncSequence", task)
    /\ LET t == timers[i]
           r == SeqTask(task, t.args[1])
       IN  /\ clock' = Later(clock, t.at)
           /\ next(t.ex, mem.tasks, r.val, RemoveAt(timers, i), Later(clock, t.at),
                   <<Say(t.ex, r.line)>>)
    /\ UNCHANGED <<jobs, runVars, declVars>>

(* The pyramid of doom *)

\* the depth of the innermost callback
Depth == 4

\* x after the callback nested at depth level
PyramidStep(level, x) ==
  CASE level = 1 -> Plus(x, Number(1))
    [] level = 2 -> Times(x, Number(2))
    [] level = 3 -> Over(x, Number(3))
    [] level = 4 -> Plus(x, Number(2))

pyramidOfDoom ==
  /\ Calls("pyramidOfDoom")
  /\ mem' = [mem EXCEPT !.x = Number(1)]
  /\ \E d \in RandomTimeouts :
       timers' = Append(timers, Timer(example, "level", <<Number(1)>>, clock + d))
  /\ called' = FALSE
  /\ UNCHANGED <<example, clock, jobs, nexts, out, runVars, declVars>>

\* the callback nested at depth timers[i].args[1]
level ==
  \E i \in DOMAIN timers :
    /\ Fires(i, "pyramidOfDoom", "level")
    /\ LET t == timers[i]
           l == t.args[1].num
           now == Later(clock, t.at)
       IN  /\ clock' = now
           /\ mem' = [mem EXCEPT !.x = PyramidStep(l, @)]
           /\ out' = Append(out, Line(t.ex, <<Str(NatStr(l) \o ": x ==="),
                                               PyramidStep(l, mem.x)>>))
           /\ IF l < Depth
              THEN /\ \E d \in RandomTimeouts :
                        timers' = Append(RemoveAt(timers, i),
                                         Timer(t.ex, "level", <<Number(l + 1)>>, now + d))
                   /\ UNCHANGED <<example, called, nexts>>
              ELSE /\ timers' = RemoveAt(timers, i)
                   /\ NextExample(t.ex)
    /\ UNCHANGED <<jobs, runVars, declVars>>

(* Ordered operations: the promise chain *)

\* getValue('name == foo').then(readFile).then(sendData).then(() => {...})
Thens == <<"readFile", "sendData", "done">>

\* a variant of PromiseTask in which getValue resolves with the query
PromiseTaskEchoes(task, arg) ==
  CASE task = "getValue" ->
         [line |-> "Retrieved value from database with query " \o StringOf(arg),
          val |-> arg]
    [] task = "readFile" ->
         [line |-> "Read file " \o StringOf(arg) \o ".csv",
          val |-> Str(StringOf(arg) \o ".csv contents")]
    [] task = "sendData" ->
         [line |-> "Sending " \o StringOf(arg), val |-> Undefined]

\* the timer callback of a function of promiseSequence, called with arg: the
\* line it prints and the value it resolves its promise with
PromiseTask(task, arg) ==
  CASE task = "getValue" ->
         [line |-> "Retrieved value from database with query " \o StringOf(arg),
          val |-> Str("foo")]
    [] task = "readFile" ->
         [line |-> "Read file " \o StringOf(arg) \o ".csv",
          val |-> Str(StringOf(arg) \o ".csv contents")]
    [] task = "sendData" ->
         [line |-> "Sending " \o StringOf(arg), val |-> Undefined]

\* a reaction: the handler registered with then, and the value it is called with
Job(k, handler, val) == [ex |-> k, handler |-> handler, val |-> val]

promiseSequence ==
  /\ Calls("promiseSequence")
  /\ \E d \in RandomTimeouts :
       timers' = Append(timers, Timer(example, "getValue", <<Str("name == foo")>>,
                                      clock + d))
  /\ mem' = [mem EXCEPT !.then = 1]
  /\ called' = FALSE
  /\ UNCHANGED <<example, clock, jobs, nexts, out, runVars, declVars>>

\* the timer callback inside a promise: it prints and resolves, which queues
\* the handler that then registered on the promise
resolve ==
  \E i \in DOMAIN timers, task \in {"getValue", "readFile", "sendData"} :
    /\ Fires(i, "promiseSequence", task)
    /\ LET t == timers[i]
           r == PromiseTask(task, t.args[1])
       IN  /\ timers' = RemoveAt(timers, i)
           /\ clock' = Later(clock, t.at)
           /\ out' = Append(out, Say(t.ex, r.line))
           /\ jobs' = Append(jobs, Job(t.ex, Thens[mem.then], r.val))
           /\ mem' = [mem EXCEPT !.then = @ + 1]
    /\ UNCHANGED <<example, called, nexts, runVars, declVars>>

\* node runs the first waiting reaction once the stack is empty
reaction ==
  /\ ~called
  /\ jobs # <<>>
  /\ LET j == Head(jobs)
     IN  /\ jobs' = Tail(jobs)
         /\ IF j.handler = "done"
            THEN /\ out' = Append(out, Say(j.ex, "Last task done"))
                 /\ timers' = timers
                 /\ NextExample(j.ex)
            ELSE /\ \E d \in RandomTimeouts :
                      timers' = Append(timers, Timer(j.ex, j.handler, <<j.val>>,
                                                     clock + d))
                 /\ UNCHANGED <<example, called, nexts, out>>
  /\ UNCHANGED <<clock, mem, runVars, declVars>>

\* the script of async.md: the event loop of node
NextAsync ==
  \/ blockRestaurant
  \/ deferRestaurant
  \/ serve
  \/ nextTickDemo
  \/ tick
  \/ separateStack
  \/ nextStack
  \/ syncWorkflow
  \/ asyncWorkflow
  \/ added
  \/ commonContinuation
  \/ cont
  \/ asyncSequence
  \/ taskDone
  \/ pyramidOfDoom
  \/ level
  \/ promiseSequence
  \/ resolve
  \/ reaction

SpecAsync == InitAsync /\ [][NextAsync]_vars

-----------------------------------------------------------------------------
(* The script of src/declarative.js: procedural and declarative average *)

\* the arrays have 1..MaxLen elements
MaxLen == 3

\* the elements are the integers -MaxNum..MaxNum and -0
MaxNum == 1

Numbers == {Number(n) : n \in (-MaxNum)..MaxNum} \cup {NegZero}

\* the non-empty arrays the script may be given for scores
Arrays == UNION {[1..n -> Numbers] : n \in 1..MaxLen}

\* a function passed as a value: a function defined by the script, named by
\* name, or a closure over the values in env
Fn(name, env) == [fn |-> name, env |-> env]

RECURSIVE Invoke(_, _)

\* const add = (x, y) => x + y
add(x, y) == Plus(x, y)

\* const div = (x, y) => x / y
div(x, y) == Over(x, y)

\* combine(f, g): the closure (...args) => f(g(...args))
combine(f, g) == Fn("(...args) => f(g(...args))", <<f, g>>)

\* operation(acc, element, index, array) as reduce calls it, for the three
\* operations the script reduces with; each of them reads two arguments
Operate(operation, acc, element) ==
  CASE operation = "add" -> add(acc, element)
    [] operation = "div" -> div(acc, element)
    [] operation = "combine" -> combine(acc, element)

\* reduce(operation)(reducible): Array.prototype.reduce without an initial
\* value starts from the first element and calls the operation for the
\* others; the array is never empty here
reduce(operation, reducible) ==
  LET acc[i \in 1..Len(reducible)] ==
        IF i = 1 THEN reducible[1] ELSE Operate(operation, acc[i - 1], reducible[i])
  IN  acc[Len(reducible)]

\* const sum = reduce(add)
sum(reducible) == reduce("add", reducible)

\* a variant of count that yields the last index
countLastIndex(x) == Number(Len(x) - 1)

\* const count = (x) => x.length
count(x) == Number(Len(x))

\* const naiveAvg = (reducible) => div(sum(reducible), count(reducible))
naiveAvg(reducible) == div(sum(reducible), count(reducible))

\* expand(...ops)(reducible): ops.map(op => op(reducible))
expand(ops, reducible) == [i \in DOMAIN ops |-> Invoke(ops[i], reducible)]

\* const division = reduce(div)
division(reducible) == reduce("div", reducible)

\* compose(...fns): reduce(combine)(fns)
compose(fns) == reduce("combine", fns)

\* the call of a function value with one argument
Invoke(f, arg) ==
  CASE f.fn = "sum" -> sum(arg)
    [] f.fn = "count" -> count(arg)
    [] f.fn = "division" -> division(arg)
    [] f.fn = "expand(...ops)" -> expand(f.env, arg)
    [] f.fn = "(...args) => f(g(...args))" -> Invoke(f.env[1], Invoke(f.env[2], arg))

\* const average = compose(division, expand(sum, count))
average(reducible) ==
  Invoke(compose(<< Fn("division", <<>>),
                  Fn("expand(...ops)", <<Fn("sum", <<>>), Fn("count", <<>>)>>) >>),
       reducible)

\* the script starts on some array; let psum = 0; let pcount = 0
InitDecl ==
  /\ RunnerOff
  /\ AsyncOff
  /\ scores \in Arrays
  /\ psum = Number(0)
  /\ pcount = 0
  /\ paverage = Undefined
  /\ script = "loop"
  /\ printed = <<>>

\* for (; pcount < scores.length; pcount++) { psum += scores[pcount] }
loop ==
  /\ script = "loop"
  /\ pcount < Len(scores)
  /\ psum' = Plus(psum, scores[pcount + 1])
  /\ pcount' = pcount + 1
  /\ UNCHANGED <<scores, paverage, script, printed, runVars, asyncVars>>

\* the loop is over: let paverage = psum / pcount, and the two results are printed
procedural ==
  /\ script = "loop"
  /\ ~(pcount < Len(scores))
  /\ paverage' = Over(psum, Number(pcount))
  /\ printed' = printed \o << <<Str("sum is"), psum>>,
                              <<Str("average is"), Over(psum, Number(pcount))>> >>
  /\ script' = "procedural"
  /\ UNCHANGED <<scores, psum, pcount, runVars, asyncVars>>

\* console.log('sum is', sum(scores)); console.log('average is', average(scores))
declarative ==
  /\ script = "procedural"
  /\ printed' = printed \o << <<Str("sum is"), sum(scores)>>,
                              <<Str("average is"), average(scores)>> >>
  /\ script' = "declarative"
  /\ UNCHANGED <<scores, psum, pcount, paverage, runVars, asyncVars>>

NextDecl ==
  \/ loop
  \/ procedural
  \/ declarative

SpecDecl == InitDecl /\ [][NextDecl]_vars

-----------------------------------------------------------------------------
(* The history of an invocation *)

Has(p, step, ev) == \E i \in DOMAIN log[p] : log[p][i] = Ev(step, ev)

Count(p, step, ev) == Cardinality({ i \in DOMAIN log[p] : log[p][i] = Ev(step, ev) })

IsStart(e) == e.ev = "start"

\* the steps process p has started, in the order it started them
Starts(p) == [i \in DOMAIN SelectSeq(log[p], IsStart) |-> SelectSeq(log[p], IsStart)[i].step]

\* some step of process p has failed
Failed(p) == \E i \in DOMAIN log[p] : log[p][i].ev = "fail"

\* the checker or the executor of process p has exited non-zero
ChildFailed(p) == Has(p, "check", "fail") \/ Has(p, "execute", "fail")

Done(p) == pc[p] = "done"

\* the steps of the runner in their fixed order
StepOrder(v) ==
  IF HasChecker(v) THEN <<"extract", "write", "check", "execute", "unlink">>
  ELSE <<"extract", "write", "execute", "unlink">>

Pos(v, step) == CHOOSE k \in DOMAIN StepOrder(v) : StepOrder(v)[k] = step

-----------------------------------------------------------------------------
(* Claims *)

\* C1: in the revision with the failure handler, once the runner has finished
\* an invocation that wrote the generated file, the generated file does not
\* exist, whether the checker and the executor succeeded or one of them failed.
C1_GeneratedFileRemoved ==
  \A p \in Procs :
    (variant[p] = "flow" /\ Done(p) /\ Has(p, "write", "ok"))
      => ~Exists(fs, Output(argv[p]))

\* a finished invocation of the "flow" revision whose checker failed after the write
C1_Witness ==
  \E p \in Procs :
    /\ variant[p] = "flow" /\ Done(p)
    /\ Has(p, "write", "ok") /\ Has(p, "check", "fail")

\* C2 as stated: every finished invocation on a named document with extractable
\* code has run extract, write, (check), execute, delete in that order and has
\* skipped none of them.
C2_NoStepSkipped ==
  \A p \in Procs :
    (Done(p) /\ ~ArgMissing(argv[p]) /\ Has(p, "extract", "ok"))
      => Starts(p) = StepOrder(variant[p])

\* C2 amended: the steps that run occur in the fixed order extract, write,
\* (check), execute, delete, each starting only after the step before it has
\* completed; a step is skipped only after an earlier step has failed, and an
\* invocation in which no step fails skips none.
C2_StepsInOrder ==
  \A p \in Procs :
    LET s == Starts(p)
        v == variant[p]
    IN  /\ \A i \in DOMAIN log[p] :
             IF i % 2 = 1 THEN log[p][i].ev = "start"
             ELSE log[p][i].ev # "start" /\ log[p][i].step = log[p][i - 1].step
        /\ s # <<>> => s[1] = "extract"
        /\ \A i \in 1..(Len(s) - 1) :
             /\ Pos(v, s[i]) < Pos(v, s[i + 1])
             /\ Pos(v, s[i + 1]) > Pos(v, s[i]) + 1 => Has(p, s[i], "fail")
        /\ (Done(p) /\ ~Failed(p)) => s = StepOrder(v)

\* a finished invocation that skipped the executor after the checker failed
C2_Witness ==
  \E p \in Procs :
    /\ Done(p) /\ Has(p, "check", "fail")
    /\ Starts(p) = <<"extract", "write", "check", "unlink">>

\* C3: when the checker exits non-zero, the executor is never started in that
\* invocation.
C3_NoExecuteAfterCheckFailure ==
  \A p \in Procs : Has(p, "check", "fail") => ~Has(p, "execute", "start")

\* a finished invocation whose checker exited non-zero and whose file was removed
C3_Witness == \E p \in Procs : Done(p) /\ Has(p, "check", "fail") /\ Has(p, "unlink", "ok")

\* C4: when the checker or the executor exits non-zero, the invocation (of a
\* named document) does not finish as a success: its promise chain is not
\* fulfilled.
C4_ChildFailureIsFailure ==
  \A p \in Procs :
    (Done(p) /\ ~ArgMissing(argv[p]) /\ ChildFailed(p)) => st[p].state # "fulfilled"

\* C5: when extraction and write succeed and every child that is run exits 0,
\* the invocation finishes as a success (fulfilled chain, exit code 0) and the
\* generated file has been deleted exactly once.
C5_SuccessDeletesOnce ==
  \A p \in Procs :
    (Done(p) /\ Has(p, "write", "ok") /\ Has(p, "execute", "ok") /\ ~ChildFailed(p))
      => /\ st[p].state = "fulfilled"
         /\ exit[p] = 0
         /\ Count(p, "unlink", "start") = 1
         /\ Count(p, "unlink", "ok") = 1

\* a finished invocation of the revision without checker whose executor exited 0
C5_Witness ==
  \E p \in Procs : Done(p) /\ variant[p] = "babel" /\ Has(p, "execute", "ok")

\* C6: once extraction has failed, the write step is never performed and no
\* step creates the generated file.
C6_NoWriteAfterExtractFailure ==
  [][ \A p \in Procs :
        Has(p, "extract", "fail")' =>
          /\ ~Has(p, "write", "start")'
          /\ ~Exists(fs, Output(argv[p])) => ~Exists(fs', Output(argv[p])) ]_vars

\* a finished invocation whose extraction failed
C6_Witness == \E p \in Procs : Done(p) /\ Has(p, "extract", "fail")

\* C7: when writing the generated file fails, neither the checker nor the
\* executor is started in that invocation.
C7_NoChildAfterWriteFailure ==
  \A p \in Procs :
    Has(p, "write", "fail") => ~Has(p, "check", "start") /\ ~Has(p, "execute", "start")

\* a finished invocation whose write failed
C7_Witness == \E p \in Procs : Done(p) /\ Has(p, "write", "fail")

\* C8: an invocation without a document name fails before any I/O: it
\* attempts no extraction, writes and deletes no file and starts no child.
C8_UsageErrorBeforeIO ==
  \A p \in Procs : ArgMissing(argv[p]) => log[p] = <<>>

\* the error of the step that failed first in process p
FirstError(p) ==
  LET i == CHOOSE k \in DOMAIN log[p] :
             /\ log[p][k].ev = "fail"
             /\ \A j \in 1..(k - 1) : log[p][j].ev # "fail"
  IN  CASE log[p][i].step = "check" -> "flow"
        [] log[p][i].step = "execute" -> "babel-node"
        [] OTHER -> log[p][i].step

\* C9: a failing deletion does not mask an earlier error: when extraction,
\* write, check or execution failed first, the invocation (of a named
\* document) ends with that error.
C9_CleanupDoesNotMask ==
  \A p \in Procs :
    (Done(p) /\ ~ArgMissing(argv[p]) /\ Has(p, "unlink", "fail") /\ FirstError(p) # "unlink")
      => st[p] = Rejected(FirstError(p))

\* C10: in the revision with the failure handler, a failing deletion does not
\* leave the chain of an invocation (of a named document) with an uncaught
\* error.
C10_CleanupFailureIsCaught ==
  \A p \in Procs :
    (variant[p] = "flow" /\ Done(p) /\ ~ArgMissing(argv[p]) /\ Has(p, "unlink", "fail"))
      => st[p].state # "rejected"

\* the document name process p was started with
Name(p) == argv[p][ArgIndex + 1]

\* C11: for a document name N the extractor is given N.md, and the path that
\* is written, the path in the checker's and in the executor's command line and
\* the path that is deleted are all N.md.js; for 'proto' the file proto.md.js
\* is on disk from the write until the deletion.
C11_PathsResolved ==
  \A p \in Procs :
    ~ArgMissing(argv[p]) =>
      /\ \A i \in DOMAIN io[p] :
           LET c == io[p][i]
           IN  CASE c.op = "extract" -> c.arg = Name(p) \o ".md"
                 [] c.op = "exec" -> c.arg \in { "flow " \o Name(p) \o ".md.js",
                                                 "babel-node " \o Name(p) \o ".md.js" }
                 [] OTHER -> c.arg = Name(p) \o ".md.js"
      /\ (Name(p) = "proto" /\ Has(p, "write", "ok") /\ ~Has(p, "unlink", "start"))
           => Exists(fs, "proto.md.js")

\* a finished invocation of 'proto' that extracted, wrote, checked, executed
\* and deleted
C11_Witness ==
  \E p \in Procs :
    /\ Done(p) /\ ~ArgMissing(argv[p]) /\ Name(p) = "proto" /\ Len(io[p]) = 5
    /\ io[p][1] = Call("extract", "proto.md", "")
    /\ io[p][3] = Call("exec", "flow proto.md.js", "")
    /\ io[p][5] = Call("unlink", "proto.md.js", "")

\* C12: the document name may be given with or without '.js': started with
\* 'proto.js' the runner extracts the document it extracts for 'proto'.
C12_JsExtensionOptional ==
  \A p \in Procs :
    argv[p] = <<"node", "run.js", "proto.js">> =>
      \A i \in DOMAIN io[p] : io[p][i].op = "extract" => io[p][i].arg = "proto.md"

\* the texts process p has handed to literatejs.write
Written(p) == { io[p][i].data : i \in { j \in DOMAIN io[p] : io[p][j].op = "write" } }

\* C13: runs of the runner in succession on one document hand the same text
\* to the write step each time, and no step of any run modifies or deletes a
\* source document.
C13_RerunIdentical ==
  [][ /\ \A m \in ModulePaths :
           Exists(fs, m) => Exists(fs', m) /\ fs'[m] = fs[m]
      /\ \A p, q \in Procs : \A x \in Written(p)', y \in Written(q)' : x = y ]_vars

\* two finished runs that both wrote the generated file
C13_Witness ==
  /\ Done(1) /\ Done(2)
  /\ Has(1, "write", "ok") /\ Has(2, "write", "ok")
  /\ Written(1) # {} /\ Written(1) = Written(2)

\* the write of process p has just succeeded
JustWritten(p) == log[p] # <<>> /\ log[p][Len(log[p])] = Ev("write", "ok")

\* C14: whatever was at the generated path before, right after a successful
\* write the generated file holds exactly the text extracted in this
\* invocation, and the invocation goes on to the check/execute handler.
C14_WriteOverwrites ==
  \A p \in Procs :
    JustWritten(p) =>
      /\ Exists(fs, Output(argv[p]))
      /\ fs[Output(argv[p])] = Extract(fs, Module(argv[p])).val
      /\ Written(p) = { fs[Output(argv[p])] }
      /\ HandlerIs(p, "exec")

\* a write that has just succeeded over a file left behind at the generated path
C14_Witness ==
  \E p \in Procs :
    /\ JustWritten(p)
    /\ Exists(fs0, Output(argv[p])) /\ fs0[Output(argv[p])] = Stale
    /\ fs[Output(argv[p])] # Stale

\* C15: in the revision without failure handler the generated file is deleted
\* only on the success path: once the executor has exited non-zero the
\* deletion is never run and the generated file stays on disk.
C15_NoCleanupWithoutHandler ==
  \A p \in Procs :
    variant[p] = "babel" =>
      /\ Has(p, "execute", "fail") =>
           ~Has(p, "unlink", "start") /\ Exists(fs, Output(argv[p]))
      /\ Has(p, "unlink", "start") => Has(p, "execute", "ok")

\* a finished invocation of the "babel" revision whose executor exited non-zero
C15_Witness ==
  \E p \in Procs :
    /\ Done(p) /\ variant[p] = "babel" /\ Has(p, "execute", "fail")
    /\ st[p] = Rejected("babel-node")

\* the steps of an invocation
Steps == {"extract", "write", "check", "execute", "unlink"}

\* C16: within one invocation each step is attempted at most once, also when
\* the deletion in the success branch throws.
C16_EachStepAtMostOnce ==
  \A p \in Procs : \A step \in Steps : Count(p, step, "start") <= 1

\* C17: every invocation (of a named document) reaches its terminal state
\* only through the cleanup step, on failure as well as on success.
C17_DoneThroughCleanup ==
  \A p \in Procs :
    (Done(p) /\ ~ArgMissing(argv[p])) => Has(p, "unlink", "start")

\* a child process of p is running
ChildRunning(p) == pc[p] \in {"checking", "executing"}

\* C18: the waits on the children are blocking: while the checker runs the
\* executor has not been started, the executor is started only after the
\* checker has exited, and while either child runs the deletion has not been
\* run and the generated file exists with the text that was written.
C18_BlockingWaits ==
  \A p \in Procs :
    /\ pc[p] = "checking" => ~Has(p, "execute", "start")
    /\ (HasChecker(variant[p]) /\ Has(p, "execute", "start")) => Has(p, "check", "ok")
    /\ ChildRunning(p) =>
         /\ ~Has(p, "unlink", "start")
         /\ Exists(fs, Output(argv[p]))
         /\ Written(p) = { fs[Output(argv[p])] }

\* the executor runs after the checker has exited with status 0
C18_Witness ==
  \E p \in Procs :
    /\ pc[p] = "executing" /\ variant[p] = "flow"
    /\ Has(p, "check", "ok") /\ Exists(fs, Output(argv[p]))

\* the child of step `step` of process p has exited
ChildExited(p, step) == Has(p, step, "ok") \/ Has(p, step, "fail")

\* C19: there is no timeout and no cancellation: while a child runs, the
\* runner moves on only when that child exits or when the runner is killed, so
\* the cleanup step is never reached before the child has exited; a runner
\* killed while a child runs never runs the cleanup step and its generated
\* file remains on disk.
C19_NoTimeoutNoCleanupOnKill ==
  [][ \A p \in Procs :
        /\ (pc[p] = "checking" /\ pc'[p] # "checking")
             => pc'[p] = "killed" \/ ChildExited(p, "check")'
        /\ (pc[p] = "executing" /\ pc'[p] # "executing")
             => pc'[p] = "killed" \/ ChildExited(p, "execute")'
        /\ (Has(p, "unlink", "start")' /\ Has(p, "execute", "start")')
             => ChildExited(p, "execute")'
        /\ pc[p] = "killed" => pc'[p] = "killed"
        /\ pc'[p] = "killed" =>
             ~Has(p, "unlink", "start")' /\ Exists(fs', Output(argv'[p])) ]_vars

\* a runner killed while the executor ran, with its generated file on disk
C19_Witness ==
  \E p \in Procs :
    /\ pc[p] = "killed" /\ Has(p, "execute", "start") /\ ~ChildExited(p, "execute")
    /\ Exists(fs, Output(argv[p]))

\* C20: when extraction fails (for a named document) the invocation leaves the
\* file system as it found it; a file already at the generated path is neither
\* overwritten nor deleted.
C20_ExtractFailureLeavesFiles ==
  \A p \in Procs :
    (Has(p, "extract", "fail") /\ ~ArgMissing(argv[p])) => fs = fs0

\* C21: when two invocations for one document name run at the same time,
\* neither overwrites or deletes the generated file while a child of the other
\* runs on it: every running checker or executor has an existing generated
\* file holding the extracted text, and no step of another process touches it.
C21_NoInterference ==
  [][ \A p \in Procs :
        ChildRunning(p)' =>
          /\ Exists(fs', Output(argv'[p]))
          /\ fs'[Output(argv'[p])] \in Written(p)'
          /\ (ChildRunning(p) /\ pc'[p] = pc[p]) => fs' = fs ]_vars

-----------------------------------------------------------------------------
(* The history of the examples *)

\* the body of example k has run
Began(k) == example > k \/ (example = k /\ ~called)

\* the callbacks of example k that have yet to run
Scheduled(k) ==
  Cardinality({i \in DOMAIN timers : timers[i].ex = k})
  + Cardinality({i \in DOMAIN jobs : jobs[i].ex = k})

\* example k has run and none of its callbacks is left
Quiet(k) == Began(k) /\ Scheduled(k) = 0

\* the lines example k has printed, in order
Printed(k) == SelectSeq(out, LAMBDA l : l.ex = k)

HasPrinted(k, s) == \E i \in DOMAIN out : out[i] = Say(k, s)

\* C22: in deferRestaurant the counter ordersTaken never goes below zero and
\* counts exactly the orders still being prepared (a salad never changes it);
\* nextExample is called at most once, and it has been called exactly when
\* every order that had to wait has been served, so the call is made by the
\* serve callback of the last such order; until then the series stays put
C22_DeferServesAllThenMovesOn ==
  LET k == IndexOf("deferRestaurant")
  IN  /\ mem.ordersTaken >= 0
      /\ nexts[k] <= 1
      /\ nexts[k] = 1 <=> Quiet(k)
      /\ Began(k) => mem.ordersTaken = Scheduled(k)
      /\ (Began(k) /\ ~Quiet(k)) => example = k

\* both dishes were served after the salad was ordered, and the series moved on
C22_Witness ==
  LET k == IndexOf("deferRestaurant")
  IN  /\ HasPrinted(k, "Jane does not have to wait")
      /\ HasPrinted(k, "Mary's sandwich is ready")
      /\ HasPrinted(k, "Bob's carbonara is ready")
      /\ mem.ordersTaken = 0
      /\ nexts[k] = 1
      /\ example = k + 1

\* C23: in commonContinuation numtasks is the number of images whose callback
\* has yet to run, so it reaches 0 exactly at the last completion; cont calls
\* nextExample at most once, and it has called it exactly when all four images
\* have been processed, whatever the order of the completions
C23_ContinuesAfterLastImage ==
  LET k == IndexOf("commonContinuation")
  IN  /\ mem.numtasks >= 0
      /\ nexts[k] <= 1
      /\ Began(k) => mem.numtasks = Scheduled(k)
      /\ nexts[k] = 1 <=> Quiet(k)
      /\ nexts[k] = 1 =>
           \A i \in DOMAIN images : HasPrinted(k, "Processed image " \o images[i])
      /\ (Began(k) /\ ~Quiet(k)) => example = k

\* the images completed in the reverse of the order they were started in, and
\* the last completion moved the series on
C23_Witness ==
  LET k == IndexOf("commonContinuation")
  IN  /\ Printed(k) = << Say(k, "Processed image image4"),
                         Say(k, "Processed image image3"),
                         Say(k, "Processed image image2"),
                         Say(k, "Processed image image1"),
                         Say(k, "All images processed") >>
      /\ mem.numtasks = 0
      /\ nexts[k] = 1
      /\ example = k + 1

\* what asyncSequence and promiseSequence are to do: the query goes to getValue,
\* its value to readFile, and the contents read to sendData
Operations ==
  << "Retrieved value from database with query name == foo",
     "Read file foo.csv",
     "Sending foo.csv contents" >>

\* the arguments the three operations are to be called with
Passed == <<Str("name == foo"), Str("foo"), Str("foo.csv contents")>>

\* C24: in asyncSequence next() runs getValue, readFile and sendData in the
\* order they were pushed, one at a time: a task is scheduled only when the one
\* before it has called back, with the value that one produced; nextExample is
\* called at most once, exactly when the last task has called back
C24_TasksRunInPushedOrder ==
  LET k == IndexOf("asyncSequence")
      done == Len(Printed(k))
  IN  /\ Scheduled(k) <= 1
      /\ nexts[k] <= 1
      /\ nexts[k] = 1 <=> Quiet(k)
      /\ (Began(k) /\ ~Quiet(k)) =>
           /\ example = k
           /\ done < Len(Pushed)
           /\ Printed(k) = [i \in 1..done |-> Say(k, Operations[i])]
           /\ mem.tasks = SubSeq(Pushed, done + 2, Len(Pushed))
           /\ \A i \in DOMAIN timers :
                timers[i].ex = k =>
                  /\ timers[i].cb = Pushed[done + 1]
                  /\ timers[i].args = <<Passed[done + 1]>>
      /\ Quiet(k) =>
           /\ Printed(k) = [i \in DOMAIN Operations |-> Say(k, Operations[i])]
                             \o <<Say(k, "Last task complete")>>
           /\ mem.tasks = <<>>

\* sendData has been handed the contents readFile produced and has called back
C24_Witness ==
  LET k == IndexOf("asyncSequence")
  IN  /\ Began(k)
      /\ HasPrinted(k, "Sending foo.csv contents")
      /\ HasPrinted(k, "Last task complete")
      /\ nexts[k] = 1
      /\ example = k + 1

\* what the first n lines of example k say
Texts(k, n) == [i \in 1..Smaller(n, Len(Printed(k))) |-> Printed(k)[i].args]

\* C25: promiseSequence performs what asyncSequence performed: at any time the
\* operations it has printed, with the values in them, are the first operations
\* asyncSequence printed; one operation is scheduled at a time, with the value
\* the one before produced; when it is done it has performed the same three
\* operations (getValue('name == foo'), readFile('foo'), sendData('foo.csv
\* contents')) and has called nextExample once, and never more than once
C25_PromisesRedoTheSequence ==
  LET a == IndexOf("asyncSequence")
      p == IndexOf("promiseSequence")
      done == Len(Texts(p, Len(Pushed)))
  IN  /\ Scheduled(p) <= 1
      /\ nexts[p] <= 1
      /\ nexts[p] = 1 <=> Quiet(p)
      /\ Began(p) =>
           /\ Texts(p, Len(Pushed)) = Texts(a, done)
           /\ \A i \in DOMAIN timers :
                timers[i].ex = p =>
                  /\ timers[i].cb = Pushed[done + 1]
                  /\ timers[i].args = <<Passed[done + 1]>>
      /\ Quiet(p) =>
           /\ Texts(p, Len(Pushed)) = Texts(a, Len(Pushed))
           /\ Texts(p, Len(Pushed)) = [i \in DOMAIN Operations |-> <<Str(Operations[i])>>]
           /\ Len(Printed(p)) = Len(Printed(a))

\* both sequences have run to their end and sent the same contents
C25_Witness ==
  LET a == IndexOf("asyncSequence")
      p == IndexOf("promiseSequence")
  IN  /\ HasPrinted(a, "Sending foo.csv contents")
      /\ HasPrinted(p, "Sending foo.csv contents")
      /\ HasPrinted(p, "Last task done")
      /\ nexts[a] = 1
      /\ nexts[p] = 1
      /\ Quiet(p)

\* C26: each of the ten examples calls nextExample at most once, and has called
\* it exactly when its body and every callback it scheduled have run; so every
\* pending callback belongs to the example the series is at, the lines appear
\* example by example in the listed order, and when nothing is left to run the
\* series has gone through the whole list
C26_ExamplesRunOneAfterAnother ==
  /\ \A k \in DOMAIN Examples :
       /\ nexts[k] <= 1
       /\ nexts[k] = 1 <=> Quiet(k)
  /\ \A i \in DOMAIN timers : timers[i].ex = example
  /\ \A i \in DOMAIN jobs : jobs[i].ex = example
  /\ \A i, j \in DOMAIN out : i < j => out[i].ex <= out[j].ex
  /\ \A i \in DOMAIN out : out[i].ex <= example
  /\ (~called /\ timers = <<>> /\ jobs = <<>>) => example = Len(Examples) + 1

\* the series has called all ten functions, the last one has called back, and
\* every example has printed something
C26_Witness ==
  /\ example = Len(Examples) + 1
  /\ \A k \in DOMAIN Examples : nexts[k] = 1 /\ Printed(k) # <<>>
  /\ timers = <<>>
  /\ jobs = <<>>

\* x === y on numbers: NaN equals nothing, and -0 equals +0
StrictEquals(x, y) ==
  /\ ~(x.num = 0 /\ x.den = 0)
  /\ ~(y.num = 0 /\ y.den = 0)
  /\ x.num = y.num
  /\ x.den = y.den

\* the array holds nothing but -0
OnlyNegZeros(xs) == \A i \in DOMAIN xs : xs[i] = NegZero

-----------------------------------------------------------------------------
(* Type correctness *)

TypeOK ==
  /\ DOMAIN fs \subseteq Paths
  /\ \A p \in Procs :
       /\ pc[p] \in {"off", "idle", "extracting", "dispatch", "writing",
                     "checking", "executing", "done", "killed"}
       /\ idx[p] \in 0..Len(Chain(variant[p]))
       /\ st[p].state \in {"pending", "fulfilled", "rejected"}
       /\ exit[p] \in {-1, 0, 1, 128 + 2}
  /\ example \in 0..(Len(Examples) + 1)
  /\ called \in BOOLEAN
  /\ clock \in Nat
  /\ \A i \in DOMAIN timers : timers[i].ex \in DOMAIN Examples /\ timers[i].at \in Nat
  /\ \A k \in DOMAIN Examples : nexts[k] \in Nat
  /\ pcount \in 0..Len(scores)
  /\ script \in {"off", "loop", "procedural", "declarative"}

====
